---------------------------- MODULE Spec2Model ----------------------------
(***************************************************************************)
(* Multi-tenant container platform: the Worker router (export default      *)
(* fetch) and the per-tenant Durable Object VibeAppContainer of            *)
(* src/unnamed/part_002 (the src/index.js of the repository, lines         *)
(* 524-961).                                                               *)
(*                                                                         *)
(* Strings the router parses (URL pathname, appId) are sequences of        *)
(* one-character strings, so that the regular expressions of the router    *)
(* are computed and not assumed.                                           *)
(***************************************************************************)
EXTENDS Integers, Sequences, FiniteSets, TLC

(***************************************************************************)
(* Bounds of the model.                                                    *)
(***************************************************************************)
\* number of inbound requests the Worker receives in one behaviour
MaxRequests == 2

(***************************************************************************)
(* JavaScript values.                                                      *)
(***************************************************************************)
\* null, for a value that is a string otherwise (no string of the model
\* holds this element, and it is not the empty string)
Null == <<"null">>

\* a variant of Falsy that takes only null for "no value" (appId === null)
IsNull(v) == v = Null

\* !v for a nullable string: null and "" are falsy
Falsy(v) == v = Null \/ v = <<>>

\* v || d for a nullable string
OrElse(v, d) == IF Falsy(v) THEN d ELSE v

\* A stored value is <<>> while its key was never put (storage.get gives
\* undefined) and <<v>> once v was put.
Undefined == <<>>
Some(v) == <<v>>

\* (v || 0) for a stored counter
OrZero(v) == IF v = Undefined \/ v = Some(0) THEN 0 ELSE v[1]

(***************************************************************************)
(* Characters and the strings of the model.                                *)
(***************************************************************************)
Lower == {"a","b","c","d","e","f","g","h","i","j","k","l","m",
          "n","o","p","q","r","s","t","u","v","w","x","y","z"}
Upper == {"A","B","C","D","E","F","G","H","I","J","K","L","M",
          "N","O","P","Q","R","S","T","U","V","W","X","Y","Z"}
Digit == {"0","1","2","3","4","5","6","7","8","9"}

\* the character class [a-zA-Z0-9_-]
AppIdChar == Lower \cup Upper \cup Digit \cup {"_", "-"}

MyApp    == <<"m","y","-","a","p","p">>
OtherApp == <<"o","t","h","e","r","_","A","1">>
BadId    == <<"b","a","d"," ","i","d","!">>

Slash   == <<"/">>
AppSeg  == <<"a","p","p">>
\* "/app/"
AppPrefix == Slash \o AppSeg \o Slash

RootPath     == Slash
UiPath       == <<"/","u","i">>
HealthPath   == <<"/","h","e","a","l","t","h">>
ApiPath      == <<"/","a","p","i">>
StatusPath   == <<"/","_","s","t","a","t","u","s">>
RestartPath  == <<"/","_","r","e","s","t","a","r","t">>
MetadataPath == <<"/","_","m","e","t","a","d","a","t","a">>
DataPath     == <<"/","a","p","i","/","d","a","t","a">>
FooPath      == <<"/","f","o","o">>

(***************************************************************************)
(* STEP 1 of fetch: the tenant key of a request.                           *)
(***************************************************************************)
\* the longest prefix of s without "/" ([^\/]+ is greedy)
RECURSIVE SegmentLen(_)
SegmentLen(s) ==
  IF s = <<>> \/ Head(s) = "/" THEN 0 ELSE 1 + SegmentLen(Tail(s))

\* url.pathname.match(/^\/app\/([^\/]+)/): the captured group, or Null
PathMatch(pathname) ==
  IF /\ Len(pathname) > Len(AppPrefix)
     /\ SubSeq(pathname, 1, Len(AppPrefix)) = AppPrefix
     /\ pathname[Len(AppPrefix) + 1] # "/"
  THEN LET rest == SubSeq(pathname, Len(AppPrefix) + 1, Len(pathname))
       IN  SubSeq(rest, 1, SegmentLen(rest))
  ELSE Null

\* a variant of ExtractAppId that tries the query parameter first
ExtractAppIdQueryFirst(req) ==
  IF Falsy(req.appIdParam) THEN PathMatch(req.pathname) ELSE req.appIdParam

\* STEP 1: pattern 1 (path), then pattern 2 (query) when pattern 1 gave
\* nothing; url.searchParams.get("appId") is Null when the parameter is absent
ExtractAppId(req) ==
  LET pathMatch == PathMatch(req.pathname)
      appId1 == IF pathMatch # Null THEN pathMatch ELSE Null
  IN  IF Falsy(appId1) THEN req.appIdParam ELSE appId1

\* /^[a-zA-Z0-9_-]+$/.test(appId)
ValidAppId(appId) ==
  /\ Len(appId) >= 1
  /\ \A i \in 1..Len(appId) : appId[i] \in AppIdChar

\* a variant of AppPathOf without the || "/"
AppPathOfNoDefault(pathname) ==
  LET m == PathMatch(pathname)
  IN  IF m = Null THEN pathname
      ELSE SubSeq(pathname, Len(AppPrefix) + Len(m) + 1, Len(pathname))

\* url.pathname.replace(/^\/app\/[^\/]+/, "") || "/"
AppPathOf(pathname) ==
  LET m == PathMatch(pathname)
      stripped == IF m = Null THEN pathname
                  ELSE SubSeq(pathname, Len(AppPrefix) + Len(m) + 1, Len(pathname))
  IN  OrElse(stripped, Slash)

(***************************************************************************)
(* Requests and responses.                                                 *)
(***************************************************************************)
Methods == {"GET", "POST", "PUT", "DELETE"}

\* request.cf of the requests of the model
SjcCf == [colo |-> "SJC", country |-> "US", city |-> "San Jose", region |-> "California"]

\* A request body: NoBody is a body request.json() cannot parse; a metadata
\* patch is a function from keys to numbers.
NoBody == [parses |-> FALSE, json |-> <<>>]
JsonBody(patch) == [parses |-> TRUE, json |-> patch]

\* the headers of a request besides X-App-Id: none
NoHeaders == <<>>

Request(method, pathname, appIdParam, body) ==
  [method |-> method, pathname |-> pathname, appIdParam |-> appIdParam,
   xAppId |-> Null, headers |-> NoHeaders, cf |-> SjcCf, body |-> body]

NoData == [none |-> TRUE]

Response(status, kind, error, data) ==
  [status |-> status, kind |-> kind, error |-> error, data |-> data,
   servedBy |-> Null]

(***************************************************************************)
(* STEP 2 and STEP 3 of fetch: platform routes and validation.             *)
(***************************************************************************)
\* a variant of IsPlatformRoute in which "/" is no platform route
IsPlatformRouteNoRoot(pathname) ==
  pathname \in {<<"/","u","i">>, <<"/","h","e","a","l","t","h">>, <<"/","a","p","i">>}

\* the paths STEP 2 answers itself
IsPlatformRoute(pathname) ==
  pathname \in {RootPath, UiPath, HealthPath, ApiPath}

\* STEP 2: the response to a platform route
PlatformResponse(pathname) ==
  IF pathname = RootPath \/ pathname = UiPath
  THEN Response(200, "ui", "", NoData)
  ELSE IF pathname = HealthPath
  THEN Response(200, "health", "",
                [status |-> "healthy",
                 usage |-> {"pathRouting", "queryRouting", "statusEndpoint"}])
  ELSE Response(200, "api", "",
                [status |-> "healthy",
                 usage |-> {"ui", "pathRouting", "queryRouting", "statusEndpoint"}])

\* STEP 3: the answer to a request without appId
MissingAppIdResponse ==
  Response(400, "json", "Missing App ID",
           [examples |-> {"GET /app/my-app-123/", "GET /?appId=my-app-123"}])

\* STEP 3: the answer to a request whose appId fails the format test
InvalidAppIdResponse(appId) ==
  Response(400, "json", "Invalid App ID", [provided |-> appId])

\* What the synchronous part of fetch decides for a request: an answer of
\* the router itself, or the dispatch to the container of appId.
Route(req) ==
  LET appId == ExtractAppId(req)
  IN  IF IsPlatformRoute(req.pathname)
      THEN [answer |-> TRUE, resp |-> PlatformResponse(req.pathname), appId |-> Null]
      ELSE IF Falsy(appId)
      THEN [answer |-> TRUE, resp |-> MissingAppIdResponse, appId |-> Null]
      ELSE IF ~ValidAppId(appId)
      THEN [answer |-> TRUE, resp |-> InvalidAppIdResponse(appId), appId |-> Null]
      ELSE [answer |-> FALSE, resp |-> Response(0, "none", "", NoData), appId |-> appId]

(***************************************************************************)
(* STEP 4: the Durable Object of an appId.                                 *)
(***************************************************************************)
\* the tenant keys of the model that pass validation
AppIds == {MyApp, OtherApp}

\* idFromName(appId): deterministic, distinct names give distinct ids
IdFromName(name) == <<"D","O",":">> \o name

\* a variant of GetByName that gives every appId the object of one name
GetByNameShared(appId) == IdFromName(MyApp)

\* env.VIBE_APP.getByName(appId): the stub of the object idFromName(appId)
GetByName(appId) == IdFromName(appId)

Ids == {IdFromName(a) : a \in AppIds}

\* this.ctx.id.name
NameOf(id) == SubSeq(id, 4, Len(id))

(***************************************************************************)
(* STEP 5: the management endpoint a dispatched request is for.            *)
(***************************************************************************)
\* "status", "restart", "getMetadata", "setMetadata", or "forward" when no
\* branch of STEP 5 returns
Endpoint(appPath, method) ==
  IF appPath = StatusPath THEN "status"
  ELSE IF appPath = RestartPath /\ method = "POST" THEN "restart"
  ELSE IF appPath = MetadataPath /\ method = "GET" THEN "getMetadata"
  ELSE IF appPath = MetadataPath /\ (method = "POST" \/ method = "PUT")
  THEN "setMetadata"
  ELSE "forward"

(***************************************************************************)
(* STEP 6: the request sent to the container.                              *)
(***************************************************************************)
\* a variant of ContainerRequest that sets X-App-Id only if the caller sent
\* none
ContainerRequestKeepsAppId(req, appId) ==
  [method |-> req.method,
   pathname |-> AppPathOf(req.pathname),
   appIdParam |-> req.appIdParam,
   body |-> req.body,
   headers |-> req.headers,
   xAppId |-> OrElse(req.xAppId, appId),
   xOriginalURL |-> [pathname |-> req.pathname, appIdParam |-> req.appIdParam],
   xCf |-> [colo    |-> IF req.cf.colo = "" THEN "unknown" ELSE req.cf.colo,
            country |-> IF req.cf.country = "" THEN "unknown" ELSE req.cf.country,
            city    |-> IF req.cf.city = "" THEN "unknown" ELSE req.cf.city,
            region  |-> IF req.cf.region = "" THEN "unknown" ELSE req.cf.region]]

\* new Request(containerUrl, request) with the headers.set calls: the
\* pathname is replaced by appPath, the query string, the method, the body
\* and the other headers are kept
ContainerRequest(req, appId) ==
  [method |-> req.method,
   pathname |-> AppPathOf(req.pathname),
   appIdParam |-> req.appIdParam,
   body |-> req.body,
   headers |-> req.headers,
   xAppId |-> appId,
   xOriginalURL |-> [pathname |-> req.pathname, appIdParam |-> req.appIdParam],
   xCf |-> [colo    |-> IF req.cf.colo = "" THEN "unknown" ELSE req.cf.colo,
            country |-> IF req.cf.country = "" THEN "unknown" ELSE req.cf.country,
            city    |-> IF req.cf.city = "" THEN "unknown" ELSE req.cf.city,
            region  |-> IF req.cf.region = "" THEN "unknown" ELSE req.cf.region]]

\* the argument of appContainer.updateLocation
LocationOf(req, t) ==
  [colo    |-> IF req.cf.colo = "" THEN "unknown" ELSE req.cf.colo,
   country |-> IF req.cf.country = "" THEN "unknown" ELSE req.cf.country,
   city    |-> IF req.cf.city = "" THEN "unknown" ELSE req.cf.city,
   region  |-> IF req.cf.region = "" THEN "unknown" ELSE req.cf.region,
   lastUpdated |-> t]

\* status.requestLocation of the /_status answer
RequestLocation(req) ==
  [colo    |-> IF req.cf.colo = "" THEN "unknown" ELSE req.cf.colo,
   country |-> IF req.cf.country = "" THEN "unknown" ELSE req.cf.country,
   city    |-> IF req.cf.city = "" THEN "unknown" ELSE req.cf.city,
   region  |-> IF req.cf.region = "" THEN "unknown" ELSE req.cf.region]

\* a variant of corsResponse built from the body alone
\* (new Response(response.body)): status and headers are the defaults
CorsResponseBodyOnly(response, appId) ==
  [Response(200, "none", response.error, response.data)
     EXCEPT !.servedBy = <<"v","i","b","e","-","a","p","p","-">> \o appId]

\* corsResponse: the container's response with X-Served-By set
CorsResponse(response, appId) ==
  [response EXCEPT !.servedBy = <<"v","i","b","e","-","a","p","p","-">> \o appId]

\* the catch block of fetch
ContainerErrorResponse(message, appId) ==
  Response(500, "json", "Container Error", [message |-> message, appId |-> appId])

(***************************************************************************)
(* State.                                                                  *)
(***************************************************************************)
VARIABLES
  arrivals,        \* number of requests the Worker has received
  now,             \* the clock Date.now() reads: it ticks with every arrival
  reqs,            \* the invocations of fetch under way, in order of arrival:
                   \* position and locals of each
  last,            \* the exchange the last step ended, if it ended one:
                   \* request, response and the request the container
                   \* received for it (if any)
  controllers,     \* ids env.VIBE_APP.getByName was asked for
  storage,         \* this.ctx.storage of every Durable Object
  lifecycleState,  \* state of the container of every Durable Object
  hook,            \* the lifecycle hook an object is running, if any
  locCalls,        \* per object: updateLocation calls that wrote totalRequests
  startHooks,      \* per object: onStart calls that wrote startCount
  startCalls,      \* per object: starts of the container
  restartBase      \* per object: the startCount stored when the restart
                   \* answered last found the container running, else -1

vars == <<arrivals, now, reqs, last, controllers, storage, lifecycleState,
          hook, locCalls, startHooks,
                 startCalls,
                 restartBase>>

\* the invocations of fetch under way
Slots == DOMAIN reqs

NoRequest == Request("GET", <<>>, Null, NoBody)
NoResponse == Response(0, "none", "", NoData)

\* reqs without its r-th invocation, which has ended with its background task
Ended(r) == [i \in 1..(Len(reqs) - 1) |-> IF i < r THEN reqs[i] ELSE reqs[i + 1]]

EmptyRecord ==
  [startCount |-> Undefined, lastStarted |-> Undefined, lastStopped |-> Undefined,
   lastError |-> Undefined, totalRequests |-> Undefined,
   containerLocation |-> Undefined, metadata |-> Undefined]

NoHook == [name |-> "none", pc |-> "none", tmp |-> 0]

\* no request reached the container
NoReceived == [method |-> "none"]

\* the last step ended no exchange
NoLast == [req |-> NoRequest, resp |-> NoResponse, creq |-> NoReceived]

Init ==
  /\ arrivals = 0
  /\ now = 0
  /\ reqs = <<>>
  /\ last = NoLast
  /\ controllers = {}
  /\ storage = [id \in Ids |-> EmptyRecord]
  /\ lifecycleState = [id \in Ids |-> "Cold"]
  /\ hook = [id \in Ids |-> NoHook]
  /\ locCalls = [id \in Ids |-> 0]
  /\ startHooks = [id \in Ids |-> 0]
  /\ startCalls = [id \in Ids |-> 0]
  /\ restartBase = [id \in Ids |-> -1]

\* locals of an invocation of fetch
AppIdOf(r) == ExtractAppId(reqs[r].req)
ObjOf(r) == GetByName(AppIdOf(r))

\* the invocation r is one of object id
At(r, id) == ObjOf(r) = id

(***************************************************************************)
(* this.ctx.storage: get and put of one key of one object.  While an       *)
(* object awaits a storage operation the runtime delivers no other event   *)
(* to it, so a method made of storage operations only runs from its first  *)
(* operation to its last without another method of the same object in      *)
(* between.                                                                *)
(***************************************************************************)
StorageGet(st, id, key) == st[id][key]

\* a variant of StoragePut whose storage is one store shared by the objects
StoragePutShared(st, id, key, value) ==
  [i \in DOMAIN st |-> [st[i] EXCEPT ![key] = Some(value)]]

StoragePut(st, id, key, value) == [st EXCEPT ![id][key] = Some(value)]

\* a variant of InStorageSequence for a runtime that delivers events to an
\* object between two storage operations of one of its methods
NoStorageSequence(id) == FALSE

\* a variant of InStorageSequence for a runtime that delivers events to an
\* object between the get and the put of setMetadata
HookAndLocationSequence(id) ==
  \/ hook[id].pc \in {"getStartCount", "putStartCount"}
  \/ \E r \in Slots : /\ At(r, id)
                      /\ reqs[r].bg \in {"putTotalRequests", "putLocation"}

\* some method of object id is between two of its storage operations
InStorageSequence(id) ==
  \/ hook[id].pc \in {"getStartCount", "putStartCount"}
  \/ \E r \in Slots : /\ At(r, id)
                      /\ \/ reqs[r].bg \in {"putTotalRequests", "putLocation"}
                         \/ reqs[r].pc = "putMetadata"

\* an event (a call, a hook, a timer) may be delivered to object id
GateOpen(id) == ~InStorageSequence(id)

(***************************************************************************)
(* The Worker: fetch from its entry to its first await.                    *)
(***************************************************************************)
\* the position fetch awaits at after dispatching to an endpoint
FirstAwait(endpoint) ==
  CASE endpoint = "status"      -> "getAppStatus"
    [] endpoint = "getMetadata" -> "getAppStatus"
    [] endpoint = "restart"     -> "restart"
    [] endpoint = "setMetadata" -> "requestJson"
    [] OTHER                    -> "fetch"

\* fetch returns resp for the invocation r; creq is the request the
\* container received for it, NoReceived if none
Respond(r, resp, creq) ==
  /\ last' = [req |-> reqs[r].req, resp |-> resp, creq |-> creq]
  /\ reqs' = IF reqs[r].bg \in {"none", "done"}
             THEN Ended(r)
             ELSE [reqs EXCEPT ![r].pc = "done", ![r].tmp = <<>>]

\* a variant of Receive that hands updateLocation to ctx.waitUntil before
\* STEP 5, for every request that has a container
ReceiveCountsAll(req) ==
  LET route == Route(req)
      endpoint == Endpoint(AppPathOf(req.pathname), req.method)
  IN  /\ arrivals < MaxRequests
      /\ arrivals' = arrivals + 1
      /\ now' = now + 1
      /\ IF route.answer
         THEN /\ last' = [req |-> req, resp |-> route.resp, creq |-> NoReceived]
              /\ UNCHANGED <<reqs, controllers>>
         ELSE /\ last' = NoLast
              /\ controllers' = controllers \cup {GetByName(route.appId)}
              /\ reqs' = Append(reqs,
                   [pc |-> FirstAwait(endpoint),
                    bg |-> "updateLocation",
                    req |-> req, tmp |-> <<>>, bgTmp |-> 0,
                    bgAt |-> now'])
      /\ UNCHANGED <<storage, lifecycleState, hook, locCalls, startHooks,
                     startCalls, restartBase>>

\* A request arrives: STEP 1 to STEP 5 run without an await.  A request for
\* the container (STEP 6) builds containerRequest, hands updateLocation to
\* ctx.waitUntil and awaits appContainer.fetch.
Receive(req) ==
  LET route == Route(req)
      endpoint == Endpoint(AppPathOf(req.pathname), req.method)
  IN  /\ arrivals < MaxRequests
      /\ arrivals' = arrivals + 1
      /\ now' = now + 1
      /\ IF route.answer
         THEN /\ last' = [req |-> req, resp |-> route.resp, creq |-> NoReceived]
              /\ UNCHANGED <<reqs, controllers>>
         ELSE /\ last' = NoLast
              /\ controllers' = controllers \cup {GetByName(route.appId)}
              /\ reqs' = Append(reqs,
                   [pc |-> FirstAwait(endpoint),
                    bg |-> IF endpoint = "forward" THEN "updateLocation" ELSE "none",
                    req |-> req, tmp |-> <<>>, bgTmp |-> 0,
                    bgAt |-> IF endpoint = "forward" THEN now' ELSE 0])
      /\ UNCHANGED <<storage, lifecycleState, hook, locCalls, startHooks,
                     startCalls,
                 restartBase>>

(***************************************************************************)
(* VibeAppContainer: the methods the Worker calls.                         *)
(***************************************************************************)
\* this.ctx.container.running
ContainerRunning(id) == lifecycleState[id] \in {"Starting", "Running", "Stopping"}

\* getAppStatus(): what it returns from object id
AppStatus(id) ==
  [appId |-> NameOf(id),
   durableObject |-> id,
   running |-> ContainerRunning(id),
   containerLocation |-> StorageGet(storage, id, "containerLocation"),
   startCount |-> OrZero(StorageGet(storage, id, "startCount")),
   lastStarted |-> StorageGet(storage, id, "lastStarted"),
   lastStopped |-> StorageGet(storage, id, "lastStopped"),
   lastError |-> StorageGet(storage, id, "lastError"),
   totalRequests |-> OrZero(StorageGet(storage, id, "totalRequests")),
   metadata |-> IF StorageGet(storage, id, "metadata") = Undefined
                THEN <<>> ELSE StorageGet(storage, id, "metadata")[1]]

\* a variant of GetAppStatus that counts the call in totalRequests
GetAppStatusCounted(r) ==
  LET id == ObjOf(r)
      status == AppStatus(id)
      endpoint == Endpoint(AppPathOf(reqs[r].req.pathname), reqs[r].req.method)
  IN  /\ reqs[r].pc = "getAppStatus"
      /\ GateOpen(id)
      /\ Respond(r, IF endpoint = "status"
                    THEN Response(200, "json", "",
                                  [status |-> status,
                                   requestLocation |-> RequestLocation(reqs[r].req)])
                    ELSE Response(200, "json", "", [metadata |-> status.metadata]),
                 NoReceived)
      /\ storage' = StoragePut(storage, id, "totalRequests", status.totalRequests + 1)
      /\ UNCHANGED <<arrivals, now, controllers, lifecycleState,
                     hook, locCalls, startHooks, startCalls,
                 restartBase>>

\* /_status and GET /_metadata: getAppStatus() reads the storage (storage
\* operations only) and fetch answers with the status or its metadata
GetAppStatus(r) ==
  LET id == ObjOf(r)
      status == AppStatus(id)
      endpoint == Endpoint(AppPathOf(reqs[r].req.pathname), reqs[r].req.method)
  IN  /\ reqs[r].pc = "getAppStatus"
      /\ GateOpen(id)
      /\ Respond(r, IF endpoint = "status"
                    THEN Response(200, "json", "",
                                  [status |-> status,
                                   requestLocation |-> RequestLocation(reqs[r].req)])
                    ELSE Response(200, "json", "", [metadata |-> status.metadata]),
                 NoReceived)
      /\ UNCHANGED <<arrivals, now, controllers, storage, lifecycleState,
                     hook, locCalls, startHooks, startCalls,
                 restartBase>>

\* POST/PUT /_metadata: await request.json(); a body that does not parse
\* throws into the catch block
RequestJson(r) ==
  /\ reqs[r].pc = "requestJson"
  /\ IF reqs[r].req.body.parses
     THEN /\ reqs' = [reqs EXCEPT ![r].pc = "setMetadata"]
          /\ last' = NoLast
     ELSE Respond(r, ContainerErrorResponse("json", AppIdOf(r)), NoReceived)
  /\ UNCHANGED <<arrivals, now, controllers, storage, lifecycleState, hook,
                 locCalls, startHooks, startCalls,
                 restartBase>>

\* a variant of MergeMetadata that stamps before it spreads the patch
\* ({ ...old, updatedAt: t, ...patch })
MergeMetadataStampFirst(old, patch, t) ==
  [k \in (DOMAIN old) \cup (DOMAIN patch) \cup {"updatedAt"} |->
     IF k \in DOMAIN patch THEN patch[k]
     ELSE IF k = "updatedAt" THEN t ELSE old[k]]

\* { ...old, ...patch, updatedAt: t }
MergeMetadata(old, patch, t) ==
  [k \in (DOMAIN old) \cup (DOMAIN patch) \cup {"updatedAt"} |->
     IF k = "updatedAt" THEN t
     ELSE IF k \in DOMAIN patch THEN patch[k] ELSE old[k]]

\* setMetadata: await this.ctx.storage.get("metadata")
SetMetadataGet(r) ==
  LET id == ObjOf(r)
  IN  /\ reqs[r].pc = "setMetadata"
      /\ GateOpen(id)
      /\ reqs' = [reqs EXCEPT ![r].pc = "putMetadata",
                              ![r].tmp = StorageGet(storage, id, "metadata")]
      /\ last' = NoLast
      /\ UNCHANGED <<arrivals, now, controllers, storage, lifecycleState,
                     hook, locCalls, startHooks, startCalls,
                 restartBase>>

\* setMetadata: await this.ctx.storage.put("metadata", {...}); the Worker
\* answers { success: true }
SetMetadataPut(r) ==
  LET id == ObjOf(r)
      old == IF reqs[r].tmp = Undefined THEN <<>> ELSE reqs[r].tmp[1]
  IN  /\ reqs[r].pc = "putMetadata"
      /\ storage' = StoragePut(storage, id, "metadata",
                               MergeMetadata(old, reqs[r].req.body.json, now))
      /\ Respond(r, Response(200, "json", "", [success |-> TRUE]), NoReceived)
      /\ UNCHANGED <<arrivals, now, controllers, lifecycleState, hook,
                     locCalls, startHooks, startCalls,
                 restartBase>>

\* updateLocation: await this.ctx.storage.get("totalRequests")
UpdateLocationGet(r) ==
  LET id == ObjOf(r)
  IN  /\ reqs[r].bg = "updateLocation"
      /\ GateOpen(id)
      /\ reqs' = [reqs EXCEPT ![r].bg = "putTotalRequests",
                              ![r].bgTmp = OrZero(StorageGet(storage, id, "totalRequests")) + 1]
      /\ last' = NoLast
      /\ UNCHANGED <<arrivals, now, controllers, storage, lifecycleState,
                     hook, locCalls, startHooks, startCalls,
                 restartBase>>

\* updateLocation: the storage operation it awaits first rejects.  The
\* promise handed to ctx.waitUntil rejects and the task ends; fetch does not
\* await it
UpdateLocationThrows(r) ==
  LET id == ObjOf(r)
  IN  /\ reqs[r].bg = "updateLocation"
      /\ GateOpen(id)
      /\ reqs' = IF reqs[r].pc = "done"
                 THEN Ended(r)
                 ELSE [reqs EXCEPT ![r].bg = "done", ![r].bgTmp = 0, ![r].bgAt = 0]
      /\ last' = NoLast
      /\ UNCHANGED <<arrivals, now, controllers, storage, lifecycleState,
                     hook, locCalls, startHooks, startCalls, restartBase>>

\* a variant of updateLocation that puts its count under the key of onStart
\* (put("startCount", totalRequests))
UpdateLocationPutTotalAsStartCount(r) ==
  LET id == ObjOf(r)
  IN  /\ reqs[r].bg = "putTotalRequests"
      /\ storage' = StoragePut(storage, id, "startCount", reqs[r].bgTmp)
      /\ locCalls' = [locCalls EXCEPT ![id] = @ + 1]
      /\ reqs' = [reqs EXCEPT ![r].bg = "putLocation"]
      /\ last' = NoLast
      /\ UNCHANGED <<arrivals, now, controllers, lifecycleState, hook,
                     startHooks, startCalls, restartBase>>

\* updateLocation: await this.ctx.storage.put("totalRequests", totalRequests)
UpdateLocationPutTotal(r) ==
  LET id == ObjOf(r)
  IN  /\ reqs[r].bg = "putTotalRequests"
      /\ storage' = StoragePut(storage, id, "totalRequests", reqs[r].bgTmp)
      /\ locCalls' = [locCalls EXCEPT ![id] = @ + 1]
      /\ reqs' = [reqs EXCEPT ![r].bg = "putLocation"]
      /\ last' = NoLast
      /\ UNCHANGED <<arrivals, now, controllers, lifecycleState, hook,
                     startHooks, startCalls,
                 restartBase>>

\* updateLocation: await this.ctx.storage.put("containerLocation", location)
UpdateLocationPutLocation(r) ==
  LET id == ObjOf(r)
  IN  /\ reqs[r].bg = "putLocation"
      /\ storage' = StoragePut(storage, id, "containerLocation",
                               LocationOf(reqs[r].req, reqs[r].bgAt))
      /\ reqs' = IF reqs[r].pc = "done"
                 THEN Ended(r)
                 ELSE [reqs EXCEPT ![r].bg = "done", ![r].bgTmp = 0, ![r].bgAt = 0]
      /\ last' = NoLast
      /\ UNCHANGED <<arrivals, now, controllers, lifecycleState, hook,
                     locCalls, startHooks, startCalls,
                 restartBase>>

(***************************************************************************)
(* The Container base class: lifecycle of the container of one object.     *)
(* Its code is not in the repository; it is modelled from the lifecycle    *)
(* the specification gives (state machine of section 4.3, section 5) and   *)
(* from the hooks' comments in VibeAppContainer.                           *)
(***************************************************************************)
\* the invocations awaiting the start of the container of id
Waiting(id) == {r \in Slots : At(r, id) /\ reqs[r].pc = "awaitStart"}

\* the invocations whose request is with the container of id
Forwarding(id) == {r \in Slots : At(r, id) /\ reqs[r].pc = "forward"}

\* the start in flight of id ends: its waiters go to position pc
ResolveStart(id, pc) ==
  [r \in Slots |-> IF r \in Waiting(id) THEN [reqs[r] EXCEPT !.pc = pc] ELSE reqs[r]]

\* appContainer.fetch(containerRequest), first step: make sure the container
\* runs.  A stopped container is started (one start; onStart is called);
\* while a start is in flight the caller joins it; while a stop is in flight
\* the caller waits.
EnsureRunning(r) ==
  LET id == ObjOf(r)
  IN  /\ reqs[r].pc = "fetch"
      /\ GateOpen(id)
      /\ lifecycleState[id] # "Stopping"
      /\ IF lifecycleState[id] = "Running"
         THEN /\ reqs' = [reqs EXCEPT ![r].pc = "forward"]
              /\ UNCHANGED <<lifecycleState, hook, startCalls>>
         ELSE IF lifecycleState[id] = "Starting"
         THEN /\ reqs' = [reqs EXCEPT ![r].pc = "awaitStart"]
              /\ UNCHANGED <<lifecycleState, hook, startCalls>>
         ELSE /\ hook[id] = NoHook
              /\ lifecycleState' = [lifecycleState EXCEPT ![id] = "Starting"]
              /\ startCalls' = [startCalls EXCEPT ![id] = @ + 1]
              /\ hook' = [hook EXCEPT ![id] = [name |-> "onStart", pc |-> "pending", tmp |-> 0]]
              /\ reqs' = [reqs EXCEPT ![r].pc = "awaitStart"]
      /\ last' = NoLast
      /\ UNCHANGED <<arrivals, now, controllers, storage, locCalls,
                     startHooks, restartBase>>

\* the start succeeds and the health check passes
StartSucceeds(id) ==
  /\ lifecycleState[id] = "Starting"
  /\ hook[id] = NoHook
  /\ GateOpen(id)
  /\ lifecycleState' = [lifecycleState EXCEPT ![id] = "Running"]
  /\ reqs' = ResolveStart(id, "forward")
  /\ last' = NoLast
  /\ UNCHANGED <<arrivals, now, controllers, storage, hook, locCalls,
                 startHooks, startCalls,
                 restartBase>>

\* the start fails or the health check times out: onError is called and
\* every waiter's fetch fails
StartFails(id) ==
  /\ lifecycleState[id] = "Starting"
  /\ hook[id] = NoHook
  /\ GateOpen(id)
  /\ lifecycleState' = [lifecycleState EXCEPT ![id] = "Error"]
  /\ hook' = [hook EXCEPT ![id] = [name |-> "onError", pc |-> "pending", tmp |-> 0]]
  /\ reqs' = ResolveStart(id, "startFailed")
  /\ last' = NoLast
  /\ UNCHANGED <<arrivals, now, controllers, storage, locCalls, startHooks,
                 startCalls,
                 restartBase>>

\* the routes of the server that runs in the container
EchoPath    == <<"/","a","p","i","/","e","c","h","o">>
CounterPath == <<"/","a","p","i","/","c","o","u","n","t","e","r">>
EnvPath     == <<"/","a","p","i","/","e","n","v">>
InstanceRoutes == {RootPath, HealthPath, EchoPath, CounterPath, EnvPath}

\* process.env.APP_ID || "unknown"
EnvAppId == <<"u","n","k","n","o","w","n">>

\* the response of the server in the container of object id: 200 on its
\* routes, 404 "Not Found" elsewhere; every body carries
\* req.headers["x-app-id"] || APP_ID
InstanceResponse(id, creq) ==
  Response(IF creq.pathname \in InstanceRoutes THEN 200 ELSE 404,
           "app",
           IF creq.pathname \in InstanceRoutes THEN "" ELSE "Not Found",
           [instance |-> id, pathname |-> creq.pathname,
            appId |-> OrElse(creq.xAppId, EnvAppId)])

\* a variant of Forward in which fetch awaits updateLocation before it
\* returns the response
ForwardAfterUpdate(r) ==
  LET id == ObjOf(r)
      creq == ContainerRequest(reqs[r].req, AppIdOf(r))
  IN  /\ reqs[r].pc = "forward"
      /\ reqs[r].bg = "done"
      /\ lifecycleState[id] = "Running"
      /\ Respond(r, CorsResponse(InstanceResponse(id, creq), AppIdOf(r)), creq)
      /\ UNCHANGED <<arrivals, now, controllers, storage, lifecycleState, hook,
                     locCalls, startHooks, startCalls, restartBase>>

\* the container answers the forwarded request; fetch adds X-Served-By
Forward(r) ==
  LET id == ObjOf(r)
      creq == ContainerRequest(reqs[r].req, AppIdOf(r))
  IN  /\ reqs[r].pc = "forward"
      /\ lifecycleState[id] = "Running"
      /\ Respond(r, CorsResponse(InstanceResponse(id, creq), AppIdOf(r)), creq)
      /\ UNCHANGED <<arrivals, now, controllers, storage, lifecycleState,
                     hook, locCalls, startHooks, startCalls,
                 restartBase>>

\* appContainer.fetch throws (the start failed, or the container cannot be
\* reached): the catch block of fetch answers 500
FetchThrows(r) ==
  /\ reqs[r].pc \in {"startFailed", "forward"}
  /\ Respond(r, ContainerErrorResponse("fetch", AppIdOf(r)), NoReceived)
  /\ UNCHANGED <<arrivals, now, controllers, storage, lifecycleState, hook,
                 locCalls, startHooks, startCalls,
                 restartBase>>

\* sleepAfter elapses without a request: the container is stopped
IdleSleep(id) ==
  /\ lifecycleState[id] = "Running"
  /\ Forwarding(id) = {}
  /\ hook[id] = NoHook
  /\ GateOpen(id)
  /\ lifecycleState' = [lifecycleState EXCEPT ![id] = "Stopping"]
  /\ last' = NoLast
  /\ UNCHANGED <<arrivals, now, reqs, controllers, storage, hook, locCalls,
                 startHooks, startCalls,
                 restartBase>>

\* a stop in flight ends: onStop is called
StopCompletes(id) ==
  /\ lifecycleState[id] = "Stopping"
  /\ hook[id] = NoHook
  /\ GateOpen(id)
  /\ lifecycleState' = [lifecycleState EXCEPT ![id] = "Sleeping"]
  /\ hook' = [hook EXCEPT ![id] = [name |-> "onStop", pc |-> "pending", tmp |-> 0]]
  /\ last' = NoLast
  /\ UNCHANGED <<arrivals, now, reqs, controllers, storage, locCalls,
                 startHooks, startCalls,
                 restartBase>>

(***************************************************************************)
(* VibeAppContainer: the lifecycle hooks.                                  *)
(***************************************************************************)
\* a variant of onStart that does not store lastStarted
OnStartSkipLastStarted(id) ==
  /\ hook[id].name = "onStart" /\ hook[id].pc = "pending"
  /\ GateOpen(id)
  /\ hook' = [hook EXCEPT ![id].pc = "getStartCount"]
  /\ last' = NoLast
  /\ UNCHANGED <<arrivals, now, reqs, controllers, storage, lifecycleState,
                 locCalls, startHooks, startCalls, restartBase>>

\* onStart: await this.ctx.storage.put("lastStarted", Date.now())
OnStartPutLastStarted(id) ==
  /\ hook[id].name = "onStart" /\ hook[id].pc = "pending"
  /\ GateOpen(id)
  /\ storage' = StoragePut(storage, id, "lastStarted", now)
  /\ hook' = [hook EXCEPT ![id].pc = "getStartCount"]
  /\ last' = NoLast
  /\ UNCHANGED <<arrivals, now, reqs, controllers, lifecycleState, locCalls,
                 startHooks, startCalls,
                 restartBase>>

\* a variant of OnStartGetStartCount that does not read the stored count
\* (put("startCount", 1))
OnStartGetStartCountFresh(id) ==
  /\ hook[id].name = "onStart" /\ hook[id].pc = "getStartCount"
  /\ hook' = [hook EXCEPT ![id].pc = "putStartCount", ![id].tmp = 1]
  /\ last' = NoLast
  /\ UNCHANGED <<arrivals, now, reqs, controllers, storage, lifecycleState,
                 locCalls, startHooks, startCalls,
                 restartBase>>

\* a variant of OnStartGetStartCount without the increment
\* (put("startCount", (await get("startCount")) || 0))
OnStartGetStartCountSame(id) ==
  /\ hook[id].name = "onStart" /\ hook[id].pc = "getStartCount"
  /\ hook' = [hook EXCEPT ![id].pc = "putStartCount",
                          ![id].tmp = OrZero(StorageGet(storage, id, "startCount"))]
  /\ last' = NoLast
  /\ UNCHANGED <<arrivals, now, reqs, controllers, storage, lifecycleState,
                 locCalls, startHooks, startCalls,
                 restartBase>>

\* onStart: (await this.ctx.storage.get("startCount")) || 0) + 1
OnStartGetStartCount(id) ==
  /\ hook[id].name = "onStart" /\ hook[id].pc = "getStartCount"
  /\ hook' = [hook EXCEPT ![id].pc = "putStartCount",
                          ![id].tmp = OrZero(StorageGet(storage, id, "startCount")) + 1]
  /\ last' = NoLast
  /\ UNCHANGED <<arrivals, now, reqs, controllers, storage, lifecycleState,
                 locCalls, startHooks, startCalls,
                 restartBase>>

\* onStart: await this.ctx.storage.put("startCount", ...)
OnStartPutStartCount(id) ==
  /\ hook[id].name = "onStart" /\ hook[id].pc = "putStartCount"
  /\ storage' = StoragePut(storage, id, "startCount", hook[id].tmp)
  /\ startHooks' = [startHooks EXCEPT ![id] = @ + 1]
  /\ hook' = [hook EXCEPT ![id] = NoHook]
  /\ last' = NoLast
  /\ UNCHANGED <<arrivals, now, reqs, controllers, lifecycleState, locCalls,
                 startCalls,
                 restartBase>>

\* a variant of onStop that logs the stop and stores nothing
OnStopLogOnly(id) ==
  /\ hook[id].name = "onStop" /\ hook[id].pc = "pending"
  /\ GateOpen(id)
  /\ hook' = [hook EXCEPT ![id] = NoHook]
  /\ last' = NoLast
  /\ UNCHANGED <<arrivals, now, reqs, controllers, storage, lifecycleState,
                 locCalls, startHooks, startCalls, restartBase>>

\* a variant of onStop that also clears lastStarted
OnStopClearsStarted(id) ==
  /\ hook[id].name = "onStop" /\ hook[id].pc = "pending"
  /\ GateOpen(id)
  /\ storage' = [storage EXCEPT ![id].lastStopped = Some(now),
                                ![id].lastStarted = Undefined]
  /\ hook' = [hook EXCEPT ![id] = NoHook]
  /\ last' = NoLast
  /\ UNCHANGED <<arrivals, now, reqs, controllers, lifecycleState, locCalls,
                 startHooks, startCalls, restartBase>>

\* onStop: await this.ctx.storage.put("lastStopped", Date.now())
OnStop(id) ==
  /\ hook[id].name = "onStop" /\ hook[id].pc = "pending"
  /\ GateOpen(id)
  /\ storage' = StoragePut(storage, id, "lastStopped", now)
  /\ hook' = [hook EXCEPT ![id] = NoHook]
  /\ last' = NoLast
  /\ UNCHANGED <<arrivals, now, reqs, controllers, lifecycleState, locCalls,
                 startHooks, startCalls,
                 restartBase>>

\* a variant of onError that logs the error and stores nothing
OnErrorLogOnly(id) ==
  /\ hook[id].name = "onError" /\ hook[id].pc = "pending"
  /\ GateOpen(id)
  /\ hook' = [hook EXCEPT ![id] = NoHook]
  /\ last' = NoLast
  /\ UNCHANGED <<arrivals, now, reqs, controllers, storage, lifecycleState,
                 locCalls, startHooks, startCalls, restartBase>>

\* onError: await this.ctx.storage.put("lastError", { message, timestamp })
OnError(id) ==
  /\ hook[id].name = "onError" /\ hook[id].pc = "pending"
  /\ GateOpen(id)
  /\ storage' = StoragePut(storage, id, "lastError",
                           [message |-> "start failed", timestamp |-> now])
  /\ hook' = [hook EXCEPT ![id] = NoHook]
  /\ last' = NoLast
  /\ UNCHANGED <<arrivals, now, reqs, controllers, lifecycleState, locCalls,
                 startHooks, startCalls,
                 restartBase>>

(***************************************************************************)
(* VibeAppContainer.restart.                                               *)
(***************************************************************************)
\* restart: await this.ctx.container.destroy().  A running or starting
\* container is stopped (a start in flight fails for its waiters).  The
\* startCount a running container has at that moment is kept for restartBase.
RestartDestroy(r) ==
  LET id == ObjOf(r)
  IN  /\ reqs[r].pc = "restart"
      /\ GateOpen(id)
      /\ IF lifecycleState[id] \in {"Running", "Starting"}
         THEN /\ lifecycleState' = [lifecycleState EXCEPT ![id] = "Stopping"]
              /\ reqs' = [ResolveStart(id, "startFailed") EXCEPT
                            ![r].pc = "restartStart",
                            ![r].tmp = IF lifecycleState[id] = "Running"
                                       THEN Some(OrZero(StorageGet(storage, id, "startCount")))
                                       ELSE Undefined]
         ELSE /\ reqs' = [reqs EXCEPT ![r].pc = "restartStart"]
              /\ UNCHANGED lifecycleState
      /\ last' = NoLast
      /\ UNCHANGED <<arrivals, now, controllers, storage, hook, locCalls,
                     startHooks, startCalls,
                 restartBase>>

\* restart: this.ctx.container.destroy() rejects.  restart has no try
\* around it: it throws before start() is reached and the catch block of
\* fetch answers 500
RestartDestroyThrows(r) ==
  /\ reqs[r].pc = "restart"
  /\ GateOpen(ObjOf(r))
  /\ Respond(r, ContainerErrorResponse("destroy", AppIdOf(r)), NoReceived)
  /\ UNCHANGED <<arrivals, now, controllers, storage, lifecycleState, hook,
                 locCalls, startHooks, startCalls,
                 restartBase>>

\* a variant of restart that does not await destroy() before start()
RestartStartNoAwait(r) ==
  LET id == ObjOf(r)
  IN  /\ reqs[r].pc = "restartStart"
      /\ GateOpen(id)
      /\ IF lifecycleState[id] \in {"Running", "Starting"}
         THEN UNCHANGED <<lifecycleState, hook, startCalls>>
         ELSE /\ hook[id] = NoHook
              /\ lifecycleState' = [lifecycleState EXCEPT ![id] = "Starting"]
              /\ startCalls' = [startCalls EXCEPT ![id] = @ + 1]
              /\ hook' = [hook EXCEPT ![id] = [name |-> "onStart", pc |-> "pending", tmp |-> 0]]
      /\ Respond(r, Response(200, "json", "",
                             [success |-> TRUE, message |-> "Container restarted"]),
                 NoReceived)
      /\ restartBase' = [restartBase EXCEPT
                           ![id] = IF reqs[r].tmp = Undefined THEN -1 ELSE reqs[r].tmp[1]]
      /\ UNCHANGED <<arrivals, now, controllers, storage, locCalls,
                     startHooks>>

\* restart: this.ctx.container.start() once destroy() has resolved, and
\* return { success: true, message } without awaiting the start
RestartStart(r) ==
  LET id == ObjOf(r)
  IN  /\ reqs[r].pc = "restartStart"
      /\ lifecycleState[id] # "Stopping"
      /\ GateOpen(id)
      /\ IF lifecycleState[id] \in {"Running", "Starting"}
         THEN UNCHANGED <<lifecycleState, hook, startCalls>>
         ELSE /\ hook[id] = NoHook
              /\ lifecycleState' = [lifecycleState EXCEPT ![id] = "Starting"]
              /\ startCalls' = [startCalls EXCEPT ![id] = @ + 1]
              /\ hook' = [hook EXCEPT ![id] = [name |-> "onStart", pc |-> "pending", tmp |-> 0]]
      /\ Respond(r, Response(200, "json", "",
                             [success |-> TRUE, message |-> "Container restarted"]),
                 NoReceived)
      /\ restartBase' = [restartBase EXCEPT
                           ![id] = IF reqs[r].tmp = Undefined THEN -1 ELSE reqs[r].tmp[1]]
      /\ UNCHANGED <<arrivals, now, controllers, storage, locCalls,
                     startHooks>>

(***************************************************************************)
(* Inbound requests of the model.                                          *)
(***************************************************************************)
\* /app/{key}{suffix}
AppUrl(key, suffix) == AppPrefix \o key \o suffix

OwnerPatch == [owner |-> 101]

\* a patch with a key of OwnerPatch, a key of its own and an updatedAt
StampedPatch == [owner |-> 102, plan |-> 5, updatedAt |-> 999]

\* the body of a request of this method
BodyFor(method) ==
  IF method = "POST" THEN JsonBody(OwnerPatch)
  ELSE IF method = "PUT" THEN JsonBody(StampedPatch)
  ELSE NoBody

\* requests of one tenant, one per endpoint
TenantRequests ==
  {Request("GET", AppUrl(MyApp, DataPath), Null, NoBody),
   Request("GET", AppUrl(MyApp, StatusPath), Null, NoBody),
   Request("POST", AppUrl(MyApp, RestartPath), Null, JsonBody(OwnerPatch)),
   Request("POST", AppUrl(MyApp, MetadataPath), Null, JsonBody(OwnerPatch))}

\* requests over every form of URL the router distinguishes
RouterRequests ==
     {Request("GET", p, q, NoBody) :
        p \in {RootPath, UiPath, HealthPath, ApiPath}, q \in {Null, <<>>, MyApp, BadId}}
  \cup
     {Request("GET", p, q, NoBody) :
        p \in {FooPath, Slash \o AppSeg, AppPrefix, StatusPath},
        q \in {Null, <<>>, MyApp, OtherApp, BadId}}
  \cup
     {Request(m, AppUrl(MyApp, suffix), Null, BodyFor(m)) :
        m \in Methods, suffix \in {StatusPath, RestartPath, MetadataPath}}
  \cup
     {Request(m, AppUrl(MyApp, suffix), Null, BodyFor(m)) :
        m \in {"GET", "POST"}, suffix \in {<<>>, Slash, DataPath}}
  \cup
     {Request("GET", AppUrl(OtherApp, suffix), Null, NoBody) :
        suffix \in {DataPath, StatusPath}}
  \cup
     {Request(m, AppUrl(BadId, suffix), Null, BodyFor(m)) :
        m \in {"GET", "POST"}, suffix \in {<<>>, DataPath, RestartPath}}
  \cup
     {Request("GET", AppUrl(k, suffix), q, NoBody) :
        k \in {MyApp, BadId}, suffix \in {<<>>, DataPath}, q \in {OtherApp, BadId}}
  \cup
     {Request("POST", AppUrl(MyApp, MetadataPath), Null, NoBody)}

(***************************************************************************)
(* Specifications.                                                         *)
(***************************************************************************)
\* no invocation of fetch and no background task is under way
Quiet == reqs = <<>>

\* requests of every URL form, for both tenants, one at a time
Next ==
  \/ \E req \in RouterRequests : Quiet /\ Receive(req)
  \/ \E r \in Slots : GetAppStatus(r)
  \/ \E r \in Slots : RequestJson(r)
  \/ \E r \in Slots : SetMetadataGet(r)
  \/ \E r \in Slots : SetMetadataPut(r)
  \/ \E r \in Slots : UpdateLocationGet(r)
  \/ \E r \in Slots : UpdateLocationPutTotal(r)
  \/ \E r \in Slots : UpdateLocationPutLocation(r)
  \/ \E r \in Slots : EnsureRunning(r)
  \/ \E r \in Slots : Forward(r)
  \/ \E r \in Slots : FetchThrows(r)
  \/ \E r \in Slots : RestartDestroy(r)
  \/ \E r \in Slots : RestartDestroyThrows(r)
  \/ \E r \in Slots : RestartStart(r)
  \/ \E id \in Ids : StartSucceeds(id)
  \/ \E id \in Ids : StartFails(id)
  \/ \E id \in Ids : IdleSleep(id)
  \/ \E id \in Ids : StopCompletes(id)
  \/ \E id \in Ids : OnStartPutLastStarted(id)
  \/ \E id \in Ids : OnStartGetStartCount(id)
  \/ \E id \in Ids : OnStartPutStartCount(id)
  \/ \E id \in Ids : OnStop(id)
  \/ \E id \in Ids : OnError(id)

Spec == Init /\ [][Next]_vars

\* concurrent requests of one tenant
NextConcurrent ==
  \/ \E req \in TenantRequests : Receive(req)
  \/ \E r \in Slots : GetAppStatus(r)
  \/ \E r \in Slots : RequestJson(r)
  \/ \E r \in Slots : SetMetadataGet(r)
  \/ \E r \in Slots : SetMetadataPut(r)
  \/ \E r \in Slots : UpdateLocationGet(r)
  \/ \E r \in Slots : UpdateLocationThrows(r)
  \/ \E r \in Slots : UpdateLocationPutTotal(r)
  \/ \E r \in Slots : UpdateLocationPutLocation(r)
  \/ \E r \in Slots : EnsureRunning(r)
  \/ \E r \in Slots : Forward(r)
  \/ \E r \in Slots : FetchThrows(r)
  \/ \E r \in Slots : RestartDestroy(r)
  \/ \E r \in Slots : RestartDestroyThrows(r)
  \/ \E r \in Slots : RestartStart(r)
  \/ \E id \in Ids : StartSucceeds(id)
  \/ \E id \in Ids : StartFails(id)
  \/ \E id \in Ids : IdleSleep(id)
  \/ \E id \in Ids : StopCompletes(id)
  \/ \E id \in Ids : OnStartPutLastStarted(id)
  \/ \E id \in Ids : OnStartGetStartCount(id)
  \/ \E id \in Ids : OnStartPutStartCount(id)
  \/ \E id \in Ids : OnStop(id)
  \/ \E id \in Ids : OnError(id)

SpecConcurrent == Init /\ [][NextConcurrent]_vars

\* The state a first request GET /app/my-app/api/data leaves behind once it
\* is served and its updateLocation has ended: the container of my-app runs,
\* started once.  arrivals counts the requests that follow.
InitRunning ==
  LET id == IdFromName(MyApp)
      first == Request("GET", AppUrl(MyApp, DataPath), Null, NoBody)
  IN  /\ arrivals = 0
      /\ now = 1
      /\ reqs = <<>>
      /\ last = NoLast
      /\ controllers = {id}
      /\ storage = [i \in Ids |->
                      IF i = id
                      THEN [EmptyRecord EXCEPT
                              !.lastStarted = Some(1),
                              !.startCount = Some(1),
                              !.totalRequests = Some(1),
                              !.containerLocation = Some(LocationOf(first, 1))]
                      ELSE EmptyRecord]
      /\ lifecycleState = [i \in Ids |-> IF i = id THEN "Running" ELSE "Cold"]
      /\ hook = [i \in Ids |-> NoHook]
      /\ locCalls = [i \in Ids |-> IF i = id THEN 1 ELSE 0]
      /\ startHooks = [i \in Ids |-> IF i = id THEN 1 ELSE 0]
      /\ startCalls = [i \in Ids |-> IF i = id THEN 1 ELSE 0]
      /\ restartBase = [i \in Ids |-> -1]

\* requests of one tenant, one at a time
NextRunning ==
  \/ \E req \in TenantRequests : Quiet /\ Receive(req)
  \/ \E r \in Slots : GetAppStatus(r)
  \/ \E r \in Slots : RequestJson(r)
  \/ \E r \in Slots : SetMetadataGet(r)
  \/ \E r \in Slots : SetMetadataPut(r)
  \/ \E r \in Slots : UpdateLocationGet(r)
  \/ \E r \in Slots : UpdateLocationPutTotal(r)
  \/ \E r \in Slots : UpdateLocationPutLocation(r)
  \/ \E r \in Slots : EnsureRunning(r)
  \/ \E r \in Slots : Forward(r)
  \/ \E r \in Slots : FetchThrows(r)
  \/ \E r \in Slots : RestartDestroy(r)
  \/ \E r \in Slots : RestartDestroyThrows(r)
  \/ \E r \in Slots : RestartStart(r)
  \/ \E id \in Ids : StartSucceeds(id)
  \/ \E id \in Ids : StartFails(id)
  \/ \E id \in Ids : IdleSleep(id)
  \/ \E id \in Ids : StopCompletes(id)
  \/ \E id \in Ids : OnStartPutLastStarted(id)
  \/ \E id \in Ids : OnStartGetStartCount(id)
  \/ \E id \in Ids : OnStartPutStartCount(id)
  \/ \E id \in Ids : OnStop(id)
  \/ \E id \in Ids : OnError(id)

\* a tenant whose container runs already
SpecRunning == InitRunning /\ [][NextRunning]_vars

\* requests of one tenant that restart nothing: for the container, and for
\* its status
IdleRequests ==
  {Request("GET", AppUrl(MyApp, DataPath), Null, NoBody),
   Request("GET", AppUrl(MyApp, StatusPath), Null, NoBody)}

NextIdle ==
  \/ \E req \in IdleRequests : Quiet /\ Receive(req)
  \/ \E r \in Slots : GetAppStatus(r)
  \/ \E r \in Slots : UpdateLocationGet(r)
  \/ \E r \in Slots : UpdateLocationThrows(r)
  \/ \E r \in Slots : UpdateLocationPutTotal(r)
  \/ \E r \in Slots : UpdateLocationPutLocation(r)
  \/ \E r \in Slots : EnsureRunning(r)
  \/ \E r \in Slots : Forward(r)
  \/ \E r \in Slots : FetchThrows(r)
  \/ \E id \in Ids : StartSucceeds(id)
  \/ \E id \in Ids : StartFails(id)
  \/ \E id \in Ids : IdleSleep(id)
  \/ \E id \in Ids : StopCompletes(id)
  \/ \E id \in Ids : OnStartPutLastStarted(id)
  \/ \E id \in Ids : OnStartGetStartCount(id)
  \/ \E id \in Ids : OnStartPutStartCount(id)
  \/ \E id \in Ids : OnStop(id)
  \/ \E id \in Ids : OnError(id)

\* the steps of NextIdle that are not the arrival of a request: the runtime
\* runs what is pending, the sleepAfter timer fires, a stop ends
IdleProgress == NextIdle /\ arrivals' = arrivals

\* one tenant left alone by restart, its requests one at a time, with the
\* runtime making progress
SpecIdle == Init /\ [][NextIdle]_vars /\ WF_vars(IdleProgress)

\* a request with an X-App-Id header and other headers of the caller
WithHeaders(req, xAppId, headers) ==
  [req EXCEPT !.xAppId = xAppId, !.headers = headers]

\* headers a caller sends that the Worker does not set
CallerHeaders == [authorization |-> 7]

\* requests for the container in the path form and in the query form, with
\* and without a body, with and without headers of the caller, an X-App-Id
\* naming the other tenant among them
HeaderRequests ==
  {WithHeaders(Request(m, u[1], u[2], BodyFor(m)), x, h) :
     m \in {"GET", "POST"},
     u \in {<<AppUrl(MyApp, <<>>), Null>>, <<AppUrl(MyApp, Slash), Null>>,
            <<AppUrl(MyApp, DataPath), Null>>, <<AppUrl(OtherApp, DataPath), Null>>,
            <<FooPath, MyApp>>, <<AppPrefix, MyApp>>},
     x \in {Null, MyApp, OtherApp},
     h \in {NoHeaders, CallerHeaders}}

NextHeaders ==
  \/ \E req \in HeaderRequests : Quiet /\ Receive(req)
  \/ \E r \in Slots : UpdateLocationGet(r)
  \/ \E r \in Slots : UpdateLocationPutTotal(r)
  \/ \E r \in Slots : UpdateLocationPutLocation(r)
  \/ \E r \in Slots : EnsureRunning(r)
  \/ \E r \in Slots : Forward(r)
  \/ \E id \in Ids : StartSucceeds(id)
  \/ \E id \in Ids : OnStartPutLastStarted(id)
  \/ \E id \in Ids : OnStartGetStartCount(id)
  \/ \E id \in Ids : OnStartPutStartCount(id)

\* forwards of every URL form and with every header, one at a time, to
\* containers that start and answer
SpecHeaders == Init /\ [][NextHeaders]_vars

\* a patch whose keys are not those of OwnerPatch
PlanPatch == [plan |-> 5]

\* setMetadata calls with disjoint patches and the reads, for one tenant
MetadataRequests ==
  {Request("POST", AppUrl(MyApp, MetadataPath), Null, JsonBody(OwnerPatch)),
   Request("PUT", AppUrl(MyApp, MetadataPath), Null, JsonBody(PlanPatch)),
   Request("GET", AppUrl(MyApp, MetadataPath), Null, NoBody),
   Request("GET", AppUrl(MyApp, StatusPath), Null, NoBody)}

NextMetadata ==
  \/ \E req \in MetadataRequests : Receive(req)
  \/ \E r \in Slots : GetAppStatus(r)
  \/ \E r \in Slots : RequestJson(r)
  \/ \E r \in Slots : SetMetadataGet(r)
  \/ \E r \in Slots : SetMetadataPut(r)

\* metadata calls of one tenant, concurrent
SpecMetadata == Init /\ [][NextMetadata]_vars

(***************************************************************************)
(* The tenant key a request carries, read off the way its URL was built    *)
(* (AppUrl), not by the router's patterns.                                 *)
(***************************************************************************)
\* the keys and the instance-relative paths the URLs of the model are built of
PathKeys == AppIds \cup {BadId}
Suffixes == {<<>>, Slash, DataPath, StatusPath, RestartPath, MetadataPath}
ManagementPaths == {StatusPath, RestartPath, MetadataPath}
PlatformPaths == {RootPath, UiPath, HealthPath, ApiPath}
PlatformKinds == {"ui", "health", "api"}

\* the URL has the path form /app/{k}...
HasPathKey(req) == \E k \in PathKeys, s \in Suffixes : req.pathname = AppUrl(k, s)

\* the key of the path form
PathKeyOf(req) ==
  CHOOSE k \in PathKeys : \E s \in Suffixes : req.pathname = AppUrl(k, s)

\* the candidate key: the key of the path form, else a non-empty appId
\* query parameter, else none (Null)
CandidateKey(req) ==
  IF HasPathKey(req) THEN PathKeyOf(req)
  ELSE IF req.appIdParam # Null /\ req.appIdParam # <<>> THEN req.appIdParam
  ELSE Null

\* the request carries the key k
Carries(req, k) == CandidateKey(req) = k

\* an exchange ended with the last step
Answered == last.req # NoRequest

\* the request of the last exchange reached the container
Forwarded == last.creq.method # "none"

\* the request that arrives with this step
Arrival == arrivals' = arrivals + 1
Arrived == IF last' # NoLast THEN last'.req ELSE reqs'[Len(reqs')].req

(***************************************************************************)
(* C1                                                                      *)
(***************************************************************************)
\* C1: every invocation for a request carrying the valid key k runs against
\* the object idFromName(k), which is among the controllers obtained; the
\* container that answers a forwarded request carrying k is the one of that
\* object; and the objects of two different valid keys are different.
C1_SameIdentity ==
  /\ \A k1, k2 \in AppIds : k1 # k2 => GetByName(k1) # GetByName(k2)
  /\ \A r \in Slots : \A k \in AppIds :
       Carries(reqs[r].req, k) =>
         /\ ObjOf(r) = IdFromName(k)
         /\ IdFromName(k) \in controllers
  /\ \A k \in AppIds :
       (Answered /\ Carries(last.req, k) /\ last.resp.kind = "app") =>
         last.resp.data.instance = IdFromName(k)

\* both objects were obtained, and a request carrying my-app in the query
\* form was answered by the container of my-app after requests for other-app
C1_Witness ==
  /\ controllers = Ids
  /\ Answered /\ last.resp.kind = "app"
  /\ ~HasPathKey(last.req) /\ last.req.appIdParam = MyApp
  /\ last.resp.data.instance = IdFromName(MyApp)

(***************************************************************************)
(* C2                                                                      *)
(***************************************************************************)
\* the step is one of tenant k: of an invocation for a request carrying k,
\* or of the container and the hooks of the object of k
StepFor(k) ==
  \/ hook'[IdFromName(k)] # hook[IdFromName(k)]
  \/ lifecycleState'[IdFromName(k)] # lifecycleState[IdFromName(k)]
  \/ \E r \in Slots : /\ Carries(reqs[r].req, k)
                      /\ (r \notin DOMAIN reqs' \/ reqs'[r] # reqs[r])
  \/ Len(reqs') > Len(reqs) /\ Carries(reqs'[Len(reqs')].req, k)

\* what /_status and GET /_metadata return for tenant k
View(k) == AppStatus(IdFromName(k))

\* C2: a step of tenant A (a forward, updateLocation, setMetadata, restart,
\* a start, a stop, a hook) leaves every field that /_status and GET
\* /_metadata return for another tenant B as it was.
C2_Isolation ==
  [][\A ka, kb \in AppIds : (ka # kb /\ StepFor(ka)) => View(kb)' = View(kb)]_vars

\* other-app has a record of its own (one request counted) that the
\* metadata written for my-app is not in
C2_Witness ==
  /\ storage[IdFromName(OtherApp)].totalRequests = Some(1)
  /\ storage[IdFromName(OtherApp)].metadata = Undefined
  /\ storage[IdFromName(MyApp)].metadata # Undefined
  /\ storage[IdFromName(MyApp)].totalRequests = Undefined

(***************************************************************************)
(* C3                                                                      *)
(***************************************************************************)
\* C3: the container of an object is started only while no start is in
\* flight and it does not run; the invocations that found a start in flight
\* wait for it and leave it together, all forwarded or all failed; and every
\* start adds exactly 1 to startCount once its onStart has run.
C3_SingleStart ==
  [][\A id \in Ids :
       /\ startCalls'[id] # startCalls[id] =>
            /\ lifecycleState[id] \notin {"Starting", "Running"}
            /\ startCalls'[id] = startCalls[id] + 1
       /\ \A r \in DOMAIN reqs' :
            (reqs'[r].pc = "awaitStart" /\ GetByName(ExtractAppId(reqs'[r].req)) = id)
              => lifecycleState'[id] = "Starting"
       /\ (lifecycleState[id] = "Starting" /\ lifecycleState'[id] # "Starting") =>
            /\ DOMAIN reqs' = DOMAIN reqs
            /\ \E pc \in {"forward", "startFailed"} :
                 \A r \in Waiting(id) : reqs'[r].pc = pc
       /\ OrZero(storage'[id].startCount)
            + (IF hook'[id].name = "onStart" THEN 1 ELSE 0) = startCalls'[id]
    ]_vars

\* two requests for the cold tenant were forwarded concurrently: one start,
\* startCount 1, and both are with the running container
C3_Witness ==
  /\ Cardinality(Forwarding(IdFromName(MyApp))) = 2
  /\ startCalls[IdFromName(MyApp)] = 1
  /\ storage[IdFromName(MyApp)].startCount = Some(1)
  /\ lifecycleState[IdFromName(MyApp)] = "Running"

(***************************************************************************)
(* C4                                                                      *)
(***************************************************************************)
\* C4: totalRequests is the number of updateLocation calls that have put it
\* and startCount the number of onStart calls that have put it, whatever
\* the order in which the calls for one object were made and run.
C4_NoLostUpdate ==
  \A id \in Ids :
    /\ OrZero(StorageGet(storage, id, "totalRequests")) = locCalls[id]
    /\ OrZero(StorageGet(storage, id, "startCount")) = startHooks[id]

\* two updateLocation calls of invocations under way at the same time have
\* both put totalRequests, and it is 2
C4_Witness ==
  /\ storage[IdFromName(MyApp)].totalRequests = Some(2)
  /\ \E r1, r2 \in Slots : /\ r1 # r2
                           /\ reqs[r1].bg = "done"
                           /\ reqs[r2].bg = "putLocation"

(***************************************************************************)
(* C5                                                                      *)
(***************************************************************************)
\* C5: the router answers with a platform-level response (UI, health, api
\* information) only a request without candidate key; a request carrying a
\* valid key in any form is dispatched to the tenant.
C5_KeyIsDispatched ==
  (Answered /\ last.resp.kind \in PlatformKinds) => CandidateKey(last.req) = Null

(***************************************************************************)
(* C6                                                                      *)
(***************************************************************************)
\* C6: on a path that is no platform route, the key the router acts on is
\* the key of the path form when there is one, whatever the appId query
\* parameter, else the non-empty query parameter; with neither (an absent or
\* an empty query parameter) it answers that the key is missing.
C6_ExtractionOrder ==
  (Answered /\ last.req.pathname \notin PlatformPaths) =>
    LET k == CandidateKey(last.req)
    IN  /\ k = Null => last.resp.error = "Missing App ID"
        /\ (k # Null /\ k \notin AppIds) =>
             /\ last.resp.error = "Invalid App ID"
             /\ last.resp.data.provided = k
        /\ k \in AppIds =>
             /\ last.resp.error \notin {"Missing App ID", "Invalid App ID"}
             /\ Forwarded => /\ last.creq.xAppId = k
                             /\ last.resp.servedBy = <<"v","i","b","e","-","a","p","p","-">> \o k
             /\ last.resp.error = "Container Error" => last.resp.data.appId = k
             /\ (last.resp.kind = "json" /\ "status" \in DOMAIN last.resp.data) =>
                  last.resp.data.status.appId = k

\* a request /app/my-app/api/data?appId=other_A1 reached the container of
\* my-app with X-App-Id my-app
C6_Witness ==
  /\ Answered /\ Forwarded
  /\ last.req.pathname = AppUrl(MyApp, DataPath)
  /\ last.req.appIdParam = OtherApp
  /\ last.creq.xAppId = MyApp

(***************************************************************************)
(* C7                                                                      *)
(***************************************************************************)
\* C7: a request whose candidate key fails the format test is answered 400
\* "Invalid App ID" with the rejected value.
C7_InvalidKeyRejected ==
  (Answered /\ CandidateKey(last.req) # Null /\ CandidateKey(last.req) \notin AppIds)
    => /\ last.resp.status = 400
       /\ last.resp.error = "Invalid App ID"
       /\ last.resp.data = [provided |-> CandidateKey(last.req)]

(***************************************************************************)
(* C8                                                                      *)
(***************************************************************************)
\* C8: a request without candidate key for a path that is no platform route
\* is answered 400 with the error "Missing App ID" and the accepted forms,
\* and its arrival obtains no controller, starts no invocation and changes
\* no storage, no container and no hook.
C8_MissingKey ==
  [][(Arrival /\ CandidateKey(Arrived) = Null /\ Arrived.pathname \notin PlatformPaths)
       => /\ last' # NoLast
          /\ last'.resp.status = 400
          /\ last'.resp.error = "Missing App ID"
          /\ last'.resp.data.examples = {"GET /app/my-app-123/", "GET /?appId=my-app-123"}
          /\ UNCHANGED <<controllers, reqs, storage, lifecycleState, hook>>
    ]_vars

\* /foo with an empty appId was answered "Missing App ID" after a request
\* for a tenant had been dispatched
C8_Witness ==
  /\ Answered /\ last.resp.error = "Missing App ID"
  /\ last.req.pathname = FooPath /\ last.req.appIdParam = <<>>
  /\ controllers # {}

(***************************************************************************)
(* C9                                                                      *)
(***************************************************************************)
\* C9 as stated: a request for the root path without appId query parameter
\* is answered 400 "Missing App ID".
C9_RootIsMissingKey ==
  (Answered /\ last.req.pathname = RootPath /\ last.req.appIdParam = Null)
    => /\ last.resp.status = 400
       /\ last.resp.error = "Missing App ID"

\* C9 amended: a request for the root path without appId query parameter is
\* answered by the router with the platform's root response (200, the UI
\* page); "Missing App ID" (400) is the answer to a request without key
\* whose path is no platform route.
C9_RootIsPlatformRoute ==
  /\ (Answered /\ last.req.pathname = RootPath /\ last.req.appIdParam = Null)
       => /\ last.resp.status = 200
          /\ last.resp.kind = "ui"
  /\ (Answered /\ CandidateKey(last.req) = Null
        /\ last.req.pathname \notin PlatformPaths)
       => /\ last.resp.status = 400
          /\ last.resp.error = "Missing App ID"

\* the root path without key was answered with the UI page
C9_Witness ==
  /\ Answered /\ last.req.pathname = RootPath /\ last.req.appIdParam = Null
  /\ last.resp.kind = "ui"

(***************************************************************************)
(* C10                                                                     *)
(***************************************************************************)
\* C10: a request whose instance-relative path is /_status, /_restart or
\* /_metadata does not reach the container, whatever its method.
C10_ManagementNotForwarded ==
  \A k \in AppIds, s \in ManagementPaths :
    (Answered /\ last.req.pathname = AppUrl(k, s)) => ~Forwarded

(***************************************************************************)
(* C11                                                                     *)
(***************************************************************************)
\* the last exchange is a POST /_restart of tenant k answered { success: true }
RestartAnswered(k) ==
  /\ Answered
  /\ last.req.pathname = AppUrl(k, RestartPath) /\ last.req.method = "POST"
  /\ last.resp.kind = "json" /\ "success" \in DOMAIN last.resp.data
  /\ last.resp.data.success

\* C11: when restart answers { success: true } the container runs: the
\* start restart triggered is neither in flight nor failed.
C11_RestartAwaitsStart ==
  \A k \in AppIds :
    RestartAnswered(k) => lifecycleState[IdFromName(k)] = "Running"

(***************************************************************************)
(* C12                                                                     *)
(***************************************************************************)
\* C12: an invocation of restart for a running, sleeping or failed
\* container does not end at its stop step, whatever the stop step does: it
\* goes on to the start.
C12_StopErrorsIgnored ==
  [][\A r \in Slots :
       (/\ reqs[r].pc = "restart"
        /\ lifecycleState[ObjOf(r)] \in {"Running", "Sleeping", "Error"})
         => reqs' # Ended(r)
    ]_vars

(***************************************************************************)
(* C13                                                                     *)
(***************************************************************************)
\* the last exchange is a /_status of tenant k
StatusAnswered(k) ==
  /\ Answered
  /\ last.req.pathname = AppUrl(k, StatusPath)
  /\ last.resp.kind = "json" /\ "status" \in DOMAIN last.resp.data

\* C13: a /_status that follows a POST /_restart answered { success: true }
\* for a running container, with no failure and no sleep of the restarted
\* container since, shows startCount one greater than before the restart
\* and the container running.
C13_StatusAfterRestart ==
  \A k \in AppIds :
    (/\ StatusAnswered(k)
     /\ restartBase[IdFromName(k)] >= 0
     /\ lifecycleState[IdFromName(k)] \in {"Starting", "Running"}
     /\ storage[IdFromName(k)].lastError = Undefined)
      => /\ last.resp.data.status.startCount = restartBase[IdFromName(k)] + 1
         /\ last.resp.data.status.running

(***************************************************************************)
(* C14                                                                     *)
(***************************************************************************)
\* the stored metadata of an object, {} while none was put
StoredMetadata(st, id) ==
  IF st[id].metadata = Undefined THEN <<>> ELSE st[id].metadata[1]

\* C14: a step that changes the stored metadata of an object is the put of
\* a setMetadata call for it and leaves the previous metadata merged with
\* the patch of the call: the keys of both and updatedAt, the patch's value
\* on every key of the patch but updatedAt, the previous value on the other
\* keys, and the time of the call as updatedAt; the call returns with this
\* step; and a GET /_metadata or a /_status answers with the metadata
\* stored when it answers.
C14_MetadataMerge ==
  [][/\ \A id \in Ids :
          storage'[id].metadata # storage[id].metadata =>
            \E r \in Slots :
              /\ reqs[r].pc = "putMetadata" /\ ObjOf(r) = id
              /\ LET old == StoredMetadata(storage, id)
                     patch == reqs[r].req.body.json
                     new == StoredMetadata(storage', id)
                 IN  /\ DOMAIN new = DOMAIN old \cup DOMAIN patch \cup {"updatedAt"}
                     /\ \A k \in DOMAIN patch \ {"updatedAt"} : new[k] = patch[k]
                     /\ \A k \in DOMAIN old \ (DOMAIN patch \cup {"updatedAt"}) :
                          new[k] = old[k]
                     /\ new["updatedAt"] = now
              /\ last'.req = reqs[r].req
              /\ last'.resp.data = [success |-> TRUE]
     /\ \A k \in AppIds :
          (/\ last' # NoLast
           /\ last'.req.pathname = AppUrl(k, MetadataPath) /\ last'.req.method = "GET"
           /\ last'.resp.status = 200)
            => last'.resp.data.metadata = StoredMetadata(storage', IdFromName(k))
     /\ \A k \in AppIds :
          (/\ last' # NoLast
           /\ last'.req.pathname = AppUrl(k, StatusPath)
           /\ last'.resp.status = 200)
            => last'.resp.data.status.metadata = StoredMetadata(storage', IdFromName(k))
    ]_vars

\* a POST of { owner: 101 } after a PUT of { owner: 102, plan: 5,
\* updatedAt: 999 } has returned: owner is overwritten, plan is kept and
\* updatedAt is the time of the second call
C14_Witness ==
  /\ Answered /\ last.req.method = "POST"
  /\ last.req.pathname = AppUrl(MyApp, MetadataPath)
  /\ last.resp.data = [success |-> TRUE]
  /\ LET m == StoredMetadata(storage, IdFromName(MyApp))
     IN  /\ DOMAIN m = {"owner", "plan", "updatedAt"}
         /\ m["owner"] = 101 /\ m["plan"] = 5 /\ m["updatedAt"] = now
         /\ now = 2

(***************************************************************************)
(* C15                                                                     *)
(***************************************************************************)
\* C15: when the only request received so far is a request for tenant k
\* that was answered "Container Error" (its forward failed), no request is
\* counted and no location is stored for k.
C15_OnlySuccessCounted ==
  \A k \in AppIds :
    (/\ Answered /\ arrivals = 1
     /\ Carries(last.req, k)
     /\ last.resp.error = "Container Error")
      => /\ storage[IdFromName(k)].totalRequests = Undefined
         /\ storage[IdFromName(k)].containerLocation = Undefined

(***************************************************************************)
(* C16                                                                     *)
(***************************************************************************)
\* C16: an invocation whose request is with the running container can
\* return the response whatever the position of its updateLocation; and a
\* step of an updateLocation, its failure included, moves no invocation on
\* its response path and ends no exchange.
C16_BackgroundUpdate ==
  [][/\ \A r \in Slots :
          (reqs[r].pc = "forward" /\ lifecycleState[ObjOf(r)] = "Running")
            => ENABLED Forward(r)
     /\ (Len(reqs') = Len(reqs) /\ \E r \in Slots : reqs'[r].bg # reqs[r].bg)
          => /\ last' = NoLast
             /\ \A r \in Slots : reqs'[r].pc = reqs[r].pc
     /\ \A r \in Slots :
          (reqs[r].pc = "done" /\ reqs' = Ended(r)) => last' = NoLast
    ]_vars

\* the only request received was forwarded and answered by the
\* container, and its updateLocation has ended without counting it
C16_Witness ==
  /\ Answered /\ Forwarded /\ last.resp.kind = "app"
  /\ arrivals = 1 /\ reqs = <<>>
  /\ storage[IdFromName(MyApp)].totalRequests = Undefined

(***************************************************************************)
(* C17                                                                     *)
(***************************************************************************)
\* C17: an invocation whose forward to the started container fails is
\* answered HTTP 502 InstanceUnreachable, and the failure leaves the
\* lifecycle state of the container as it was.
C17_TransportFailure ==
  [][\A r \in Slots :
       (/\ reqs[r].pc = "forward"
        /\ lifecycleState[ObjOf(r)] = "Running"
        /\ last' # NoLast /\ last'.req = reqs[r].req
        /\ last'.creq = NoReceived)
         => /\ last'.resp.status = 502
            /\ last'.resp.error = "InstanceUnreachable"
            /\ lifecycleState' = lifecycleState
    ]_vars

(***************************************************************************)
(* C18                                                                     *)
(***************************************************************************)
\* the step answers the invocation r
Answers(r) ==
  /\ last' # NoLast
  /\ \/ reqs' = Ended(r)
     \/ Len(reqs') = Len(reqs) /\ reqs'[r].pc = "done" /\ reqs[r].pc # "done"

\* C18: an invocation whose start failed is answered 500 with an error
\* field; once onError has run for a failed start the record holds
\* lastError, and /_status shows the lastError of the record; and a request
\* that finds the container in Error starts it anew, by one start call.
C18_StartFailure ==
  [][/\ \A r \in Slots :
          (reqs[r].pc = "startFailed" /\ Answers(r))
            => /\ last'.resp.status = 500
               /\ last'.resp.error = "Container Error"
               /\ last'.creq = NoReceived
     /\ \A id \in Ids :
          (lifecycleState'[id] = "Error" /\ hook'[id] = NoHook)
            => /\ storage'[id].lastError # Undefined
               /\ AppStatus(id)'.lastError = storage'[id].lastError
     /\ \A k \in AppIds :
          StatusAnswered(k)'
            => last'.resp.data.status.lastError = storage'[IdFromName(k)].lastError
     /\ \A r \in Slots :
          (/\ reqs[r].pc = "fetch" /\ lifecycleState[ObjOf(r)] = "Error"
           /\ Len(reqs') = Len(reqs) /\ reqs'[r].pc # "fetch")
            => /\ reqs'[r].pc = "awaitStart"
               /\ lifecycleState'[ObjOf(r)] = "Starting"
               /\ startCalls'[ObjOf(r)] = startCalls[ObjOf(r)] + 1
    ]_vars

\* the first start of my-app failed and left lastError; the start the next
\* request triggered succeeded and the container answered that request
C18_Witness ==
  /\ Answered /\ Forwarded /\ last.resp.kind = "app"
  /\ storage[IdFromName(MyApp)].lastError # Undefined
  /\ startCalls[IdFromName(MyApp)] = 2
  /\ lifecycleState[IdFromName(MyApp)] = "Running"

C21_IdempotentEnsureRunning ==
  [][/\ \A r \in Slots :
          (/\ reqs[r].pc = "fetch" /\ lifecycleState[ObjOf(r)] = "Running"
           /\ Len(reqs') = Len(reqs) /\ reqs'[r].pc # "fetch")
            => /\ reqs'[r].pc = "forward"
               /\ startCalls' = startCalls
               /\ lifecycleState' = lifecycleState
               /\ hook' = hook
               /\ storage'[ObjOf(r)].startCount = storage[ObjOf(r)].startCount
     /\ \A k \in AppIds :
          (/\ Answered' /\ Forwarded' /\ Carries(last'.req, k)
           /\ startCalls'[IdFromName(k)] = 1)
            => /\ storage'[IdFromName(k)].startCount = Some(1)
               /\ last'.resp.data.instance = IdFromName(k)
    ]_vars

\* the second of two requests for my-app is answered by the container, which
\* was started once; both requests are counted
C21_Witness ==
  /\ Answered /\ Forwarded /\ Carries(last.req, MyApp)
  /\ arrivals = 2
  /\ storage[IdFromName(MyApp)].totalRequests = Some(2)
  /\ startCalls[IdFromName(MyApp)] = 1
  /\ storage[IdFromName(MyApp)].startCount = Some(1)

(***************************************************************************)
(* C22                                                                     *)
(***************************************************************************)
\* the request is one the Worker answers from getAppStatus
ReadsStatus(req) ==
  /\ ~Route(req).answer
  /\ Endpoint(AppPathOf(req.pathname), req.method) \in {"status", "getMetadata"}

\* C22: the arrival of a /_status or GET /_metadata request and the step
\* that answers it leave the storage, the lifecycle state, the hooks and the
\* start calls of every object as they were; and for a tenant whose record
\* is empty /_status reports startCount 0, totalRequests 0 and metadata {},
\* and GET /_metadata reports {}.
C22_StatusReadOnly ==
  [][/\ \A r \in Slots :
          (reqs[r].pc = "getAppStatus" /\ Answers(r))
            => /\ storage' = storage
               /\ lifecycleState' = lifecycleState
               /\ hook' = hook
               /\ startCalls' = startCalls
     /\ (Arrival /\ ReadsStatus(Arrived))
          => /\ storage' = storage
             /\ lifecycleState' = lifecycleState
             /\ hook' = hook
             /\ startCalls' = startCalls
     /\ (/\ Answered' /\ ReadsStatus(last'.req)
         /\ storage'[GetByName(ExtractAppId(last'.req))] = EmptyRecord)
          => IF "status" \in DOMAIN last'.resp.data
             THEN /\ last'.resp.data.status.startCount = 0
                  /\ last'.resp.data.status.totalRequests = 0
                  /\ last'.resp.data.status.metadata = <<>>
             ELSE last'.resp.data = [metadata |-> <<>>]
    ]_vars

\* /_status of other-app, which was never used, is answered: startCount 0,
\* the record still empty and the container still cold
C22_Witness ==
  /\ Answered /\ ReadsStatus(last.req)
  /\ ExtractAppId(last.req) = OtherApp
  /\ "status" \in DOMAIN last.resp.data
  /\ last.resp.data.status.startCount = 0
  /\ storage[IdFromName(OtherApp)] = EmptyRecord
  /\ lifecycleState[IdFromName(OtherApp)] = "Cold"
  /\ IdFromName(OtherApp) \in controllers

(***************************************************************************)
(* C23                                                                     *)
(***************************************************************************)
\* the value of X-Served-By for tenant key k
ServedBy(k) == <<"v","i","b","e","-","a","p","p","-">> \o k

\* C23: the answer to a request the container answered has the status, the
\* content type and the body of the container's response to the request it
\* received, and X-Served-By names the tenant key the request carries (and
\* no other key of the model).
C23_ResponseUnmodified ==
  \A k \in AppIds :
    (Answered /\ Forwarded /\ Carries(last.req, k))
      => LET inst == InstanceResponse(IdFromName(k), last.creq)
         IN  /\ last.resp.status = inst.status
             /\ last.resp.kind = inst.kind
             /\ last.resp.error = inst.error
             /\ last.resp.data = inst.data
             /\ DOMAIN last.resp = DOMAIN inst
             /\ last.resp.servedBy = ServedBy(k)
             /\ \A k2 \in AppIds \ {k} : last.resp.servedBy # ServedBy(k2)

\* the container answered 404 to a request for my-app, and the caller got
\* the 404 with X-Served-By: vibe-app-my-app
C23_Witness ==
  /\ Answered /\ Forwarded /\ Carries(last.req, MyApp)
  /\ last.resp.status = 404 /\ last.resp.error = "Not Found"
  /\ last.resp.servedBy = ServedBy(MyApp)
  /\ InstanceResponse(IdFromName(MyApp), last.creq).servedBy = Null

(***************************************************************************)
(* C24                                                                     *)
(***************************************************************************)
\* the instance-relative path of a request, read off the way its URL was
\* built: what follows /app/{key}, "/" if nothing follows, and the whole
\* path of a URL that is not of the path form
RelativePath(req) ==
  IF HasPathKey(req)
  THEN LET s == CHOOSE s \in Suffixes : req.pathname = AppUrl(PathKeyOf(req), s)
       IN  IF s = <<>> THEN Slash ELSE s
  ELSE req.pathname

\* C24: the request the container received has the method, the body and the
\* caller's headers of the inbound request and the instance-relative path;
\* what it has besides is X-App-Id, X-Original-URL (the inbound URL) and the
\* X-CF headers (the caller's location).
C24_RequestPreserved ==
  (Answered /\ Forwarded)
    => /\ last.creq.method = last.req.method
       /\ last.creq.body = last.req.body
       /\ last.creq.headers = last.req.headers
       /\ last.creq.pathname = RelativePath(last.req)
       /\ DOMAIN last.creq =
            {"method", "pathname", "appIdParam", "body", "headers",
             "xAppId", "xOriginalURL", "xCf"}
       /\ last.creq.xOriginalURL =
            [pathname |-> last.req.pathname, appIdParam |-> last.req.appIdParam]
       /\ last.creq.xCf = RequestLocation(last.req)

\* a POST for /app/my-app with a body and an Authorization header reached
\* the container as a POST for "/" with that body and that header
C24_Witness ==
  /\ Answered /\ Forwarded
  /\ last.req.method = "POST" /\ last.req.pathname = AppUrl(MyApp, <<>>)
  /\ last.req.headers = CallerHeaders
  /\ last.creq.method = "POST" /\ last.creq.pathname = Slash
  /\ last.creq.body = JsonBody(OwnerPatch)
  /\ last.creq.headers = CallerHeaders

C26_NoLostMetadata ==
  [][/\ \A id \in Ids :
          LET old == StoredMetadata(storage, id)
              new == StoredMetadata(storage', id)
          IN  /\ DOMAIN old \subseteq DOMAIN new
              /\ \A k \in DOMAIN old \ {"updatedAt"} :
                   new[k] # old[k]
                     => \E r \in Slots :
                          /\ reqs[r].pc = "putMetadata" /\ ObjOf(r) = id
                          /\ Answers(r)
                          /\ k \in DOMAIN reqs[r].req.body.json
     /\ \A r \in Slots :
          (reqs[r].pc = "putMetadata" /\ Answers(r))
            => \A k \in DOMAIN reqs[r].req.body.json \ {"updatedAt"} :
                 /\ k \in DOMAIN StoredMetadata(storage', ObjOf(r))
                 /\ StoredMetadata(storage', ObjOf(r))[k] = reqs[r].req.body.json[k]
    ]_vars

\* setMetadata({ owner }) and setMetadata({ plan }) have both returned:
\* owner and plan are stored
C26_Witness ==
  /\ arrivals = 2 /\ reqs = <<>> /\ Answered
  /\ now = 2
  /\ DOMAIN StoredMetadata(storage, IdFromName(MyApp)) = {"owner", "plan", "updatedAt"}
  /\ StoredMetadata(storage, IdFromName(MyApp)).owner = OwnerPatch.owner
  /\ StoredMetadata(storage, IdFromName(MyApp)).plan = PlanPatch.plan

(***************************************************************************)
(* C27                                                                     *)
(***************************************************************************)
\* C27: no step makes the stored startCount or the stored totalRequests of
\* an object smaller (a key never put counts as 0), and a key that was put
\* stays put.
C27_CountersMonotonic ==
  [][\A id \in Ids :
       /\ OrZero(storage'[id].startCount) >= OrZero(storage[id].startCount)
       /\ OrZero(storage'[id].totalRequests) >= OrZero(storage[id].totalRequests)
       /\ storage[id].startCount # Undefined => storage'[id].startCount # Undefined
       /\ storage[id].totalRequests # Undefined
            => storage'[id].totalRequests # Undefined
    ]_vars

\* after two requests for my-app, with a stop and a second start in
\* between, both counters have reached 2
C27_Witness ==
  /\ storage[IdFromName(MyApp)].startCount = Some(2)
  /\ storage[IdFromName(MyApp)].totalRequests = Some(2)
  /\ startCalls[IdFromName(MyApp)] = 2

(***************************************************************************)
(* C28                                                                     *)
(***************************************************************************)
\* the keys of the record of an object
RecordKeys == DOMAIN EmptyRecord

\* C28: in every state reached by a step, a record whose startCount is at
\* least 1 has lastStarted; and no step takes a key that was put out of a
\* record.
C28_RecordKeepsFields ==
  [][\A id \in Ids :
       /\ OrZero(storage'[id].startCount) >= 1
            => storage'[id].lastStarted # Undefined
       /\ \A key \in RecordKeys :
            storage[id][key] # Undefined => storage'[id][key] # Undefined
    ]_vars

\* the first start of my-app failed and the second brought the container
\* up: startCount is 2, and lastStarted, lastError and the fields of
\* updateLocation written on the way are all there
C28_Witness ==
  /\ storage[IdFromName(MyApp)].startCount = Some(2)
  /\ storage[IdFromName(MyApp)].lastStarted # Undefined
  /\ storage[IdFromName(MyApp)].lastError # Undefined
  /\ storage[IdFromName(MyApp)].totalRequests # Undefined
  /\ storage[IdFromName(MyApp)].containerLocation # Undefined
  /\ lifecycleState[IdFromName(MyApp)] = "Running"

(***************************************************************************)
(* C29                                                                     *)
(***************************************************************************)
\* C29: the request the container received carries as X-App-Id the key the
\* router extracted from the URL, which is valid and is the key the URL was
\* built with, whatever X-App-Id the caller sent; the container that
\* answered is the one of that key, and the appId its server read from the
\* header and put in the body is that key.
C29_AppIdHeader ==
  (Answered /\ Forwarded)
    => /\ last.creq.xAppId = ExtractAppId(last.req)
       /\ ValidAppId(last.creq.xAppId)
       /\ Carries(last.req, last.creq.xAppId)
       /\ last.resp.data.appId = last.creq.xAppId
       /\ last.resp.data.instance = IdFromName(last.creq.xAppId)

\* a request for my-app sent with X-App-Id: other-app reached the container
\* of my-app with X-App-Id: my-app
C29_Witness ==
  /\ Answered /\ Forwarded
  /\ Carries(last.req, MyApp) /\ last.req.xAppId = OtherApp
  /\ last.creq.xAppId = MyApp
  /\ last.resp.data.appId = MyApp
  /\ last.resp.data.instance = IdFromName(MyApp)

(***************************************************************************)
(* C30                                                                     *)
(***************************************************************************)
\* the positions of an updateLocation call, in order; "none" for an
\* invocation that made no call
NextBg(bg) ==
  CASE bg = "updateLocation"   -> {"putTotalRequests", "done"}
    [] bg = "putTotalRequests" -> {"putLocation"}
    [] bg = "putLocation"      -> {"done"}
    [] OTHER                   -> {}

\* the request is for a management sub-route: its instance-relative path,
\* as its URL was built, is /_status, /_restart with POST, or /_metadata
\* with GET, POST or PUT
Management(req) ==
  LET p == RelativePath(req)
  IN  \/ p = StatusPath
      \/ p = RestartPath /\ req.method = "POST"
      \/ p = MetadataPath /\ req.method \in {"GET", "POST", "PUT"}

\* C30: a request the router answers itself starts no invocation and leaves
\* every record as it was; the invocation of a management request makes no
\* updateLocation call, that of any other request makes one; a call goes
\* through its positions once and in order; and a step changes
\* totalRequests or containerLocation of an object only as a put of an
\* updateLocation call for that object, totalRequests by 1.
C30_OnlyForwardsCounted ==
  [][/\ Arrival
          => /\ storage' = storage
             /\ IF last' # NoLast
                THEN reqs' = reqs
                ELSE reqs'[Len(reqs')].bg
                       = IF Management(Arrived) THEN "none" ELSE "updateLocation"
     /\ \A r \in Slots :
          (Len(reqs') = Len(reqs) /\ reqs'[r].bg # reqs[r].bg)
            => reqs'[r].bg \in NextBg(reqs[r].bg)
     /\ \A id \in Ids :
          /\ storage'[id].totalRequests # storage[id].totalRequests
               => /\ \E r \in Slots : /\ reqs[r].bg = "putTotalRequests"
                                      /\ ObjOf(r) = id
                                      /\ ~Management(reqs[r].req)
                  /\ storage'[id].totalRequests
                       = Some(OrZero(storage[id].totalRequests) + 1)
          /\ storage'[id].containerLocation # storage[id].containerLocation
               => \E r \in Slots : /\ reqs[r].bg = "putLocation"
                                   /\ ObjOf(r) = id
                                   /\ ~Management(reqs[r].req)
    ]_vars

\* after one forward for my-app, a POST /_metadata for my-app was answered:
\* totalRequests is still 1
C30_Witness ==
  /\ Answered /\ arrivals = 2
  /\ last.req.pathname = AppUrl(MyApp, MetadataPath) /\ last.req.method = "POST"
  /\ last.resp.status = 200
  /\ storage[IdFromName(MyApp)].totalRequests = Some(1)
  /\ storage[IdFromName(MyApp)].metadata # Undefined
  /\ locCalls[IdFromName(MyApp)] = 1

=============================================================================
